---- MODULE Spec2Model ----
(***************************************************************************)
(* Depth Tour: the DepthTour application class (depthTour.js) and the      *)
(* CPU-side projection function of shaders.js, as a state machine.         *)
(*                                                                         *)
(* Numbers are fixed point.  Depth values d and the depth parameters       *)
(* (depthScale, depthBias) are in tenths; world coordinates and exposure   *)
(* are in hundredths; texture coordinates u, v are in hundredths.          *)
(* A number of a hotspot record may have decimals below this grid: they    *)
(* are kept beside the number, in units of 10^-7 (field fine), are too     *)
(* small to move a projection on the grid, and are what toFixed(6) rounds. *)
(* One action is one run-to-completion step of the JavaScript event loop:  *)
(* an event handler, or the completion of an asynchronous request          *)
(* together with every continuation that the completion releases.          *)
(***************************************************************************)
EXTENDS Integers, Sequences, FiniteSets, TLC

(* ------------------------------ bounds -------------------------------- *)

\* loadScene calls that pass the scene-name check, over a whole run
MaxLoads == 3
\* user input events (key presses, hotspot clicks, mouse clicks) over a whole run
MaxEvents == 3
\* key presses over a whole run in which the keyboard is the only source of events
MaxKeys == 6
\* hotspot clicks over a whole run in which hotspot clicks are the only user input
MaxClicks == 2
\* a call of a projection function is given a depthScale of 0.5, 1.0, ... up to
\* 0.5 + 0.5 * MaxScaleSteps
MaxScaleSteps == 5
\* and a depthBias of 0, 0.5 or -0.5, ... up to 0.5 * MaxBiasSteps either way
MaxBiasSteps == 2

(* ------------------------- program constants -------------------------- *)

NULL == "null"

\* this.depthScale = 3.0, in tenths
InitDepthScale == 30
\* this.depthBias = 0.0, in tenths
InitDepthBias == 0
\* this.exposure = 1.0, in hundredths
InitExposure == 100
\* Math.max(0.5, ...) in adjustDepthScale, in tenths
MinDepthScale == 5
\* Math.max(0.01, ...) in adjustExposure, in hundredths
MinExposure == 1
\* adjustDepthScale(-0.5) / adjustDepthScale(0.5), in tenths
DepthScaleStep == 5
\* adjustExposure(-0.2) / adjustExposure(0.2), in hundredths
ExposureStep == 20
\* the radius of SphereGeometry(1, 64, 32), in hundredths
SphereRadius == 100

(* --------------------------- the manifest ----------------------------- *)

\* the keys of scenesData.scenes
SceneNames == {"lobby", "hall"}
\* a scene name that is no key of scenesData.scenes
AbsentScene == "cellar"
\* the values scenes.json can give for "start"
StartNames == {"lobby", AbsentScene}

(* ------------------------ projection (shaders.js) --------------------- *)

Max(a, b) == IF a >= b THEN a ELSE b

Min(a, b) == IF a <= b THEN a ELSE b

\* sin and cos of phi = (u - 0.5) * 2 * PI, for u on the quarter grid
SinPhi(u) == CASE u = 0 -> 0 [] u = 25 -> -1 [] u = 50 -> 0 [] u = 75 -> 1 [] u = 100 -> 0

CosPhi(u) == CASE u = 0 -> -1 [] u = 25 -> 0 [] u = 50 -> 1 [] u = 75 -> 0 [] u = 100 -> -1

\* sin and cos of theta = (v - 0.5) * PI, for v in {0, 0.5, 1}
SinTheta(v) == CASE v = 0 -> -1 [] v = 50 -> 0 [] v = 100 -> 1

CosTheta(v) == CASE v = 0 -> 0 [] v = 50 -> 1 [] v = 100 -> 0

\* the depth transformation with the bias added before the flip
TransformDepth_BiasFirst(d, depthScale, depthBias, depthFlip) ==
    (IF depthFlip THEN 10 - (d + depthBias) ELSE d + depthBias) * depthScale

\* depth after flip, bias and scale; d, bias, scale in tenths, result in hundredths
TransformDepth(d, depthScale, depthBias, depthFlip) ==
    ((IF depthFlip THEN 10 - d ELSE d) + depthBias) * depthScale

\* the point of the unit sphere at texture coordinates (u, v)
SpherePoint(u, v) ==
    << CosTheta(v) * SinPhi(u), SinTheta(v), CosTheta(v) * CosPhi(u) >>

\* uvDepthToWorld that keeps u off the seam as the texture lookups do (clampUV), the
\* epsilon as wide as a quarter of the panorama
uvDepthToWorld_ClampedU(u, v, depth, depthScale, depthBias, depthFlip) ==
    LET t == TransformDepth(depth, depthScale, depthBias, depthFlip)
        spherePos == SpherePoint(Max(25, Min(75, u)), v)
    IN  [k \in 1..3 |-> spherePos[k] * 100 + spherePos[k] * t]

\* uvDepthToWorld: spherePos.add(displacement), in hundredths
uvDepthToWorld(u, v, depth, depthScale, depthBias, depthFlip) ==
    LET t == TransformDepth(depth, depthScale, depthBias, depthFlip)
        spherePos == SpherePoint(u, v)
    IN  [k \in 1..3 |-> spherePos[k] * 100 + spherePos[k] * t]

\* Vector3.length(), in hundredths, rounded down
ISqrt(n) == CHOOSE r \in 0..1000 : r * r <= n /\ (r + 1) * (r + 1) > n

Length(p) == ISqrt(p[1] * p[1] + p[2] * p[2] + p[3] * p[3])

\* units of 10^-7 in one tenth, in one hundredth and in 10^-6
FinePerTenth == 1000000

FinePerHundredth == 100000

FinePerMicro == 10

\* Math.atan2(x, z) / (2 * PI) for an axis direction, in hundredths
Atan2Turns(x, z) ==
    CASE x = 0 /\ z >= 0 -> 0 [] x > 0 /\ z = 0 -> 25 [] x < 0 /\ z = 0 -> -25
      [] x = 0 /\ z < 0 -> 50

\* Math.asin(y) / PI for an axis direction, in hundredths
AsinHalfTurns(y) == CASE y = -100 -> -50 [] y = 0 -> 0 [] y = 100 -> 50

\* Vector3.normalize(), in hundredths
Normalize(p) ==
    LET distance == Length(p)
    IN  IF distance = 0 THEN p ELSE [k \in 1..3 |-> (p[k] * 100) \div distance]

\* the depth estimate of worldToUvDepth in which the bias is not taken off again
depthEstimate_BiasKept(worldPos, depthScale, depthBias, depthFlip) ==
    LET distance == Length(worldPos)
        estimate == ((distance - 100) * FinePerTenth) \div depthScale
    IN  IF depthFlip THEN 10 * FinePerTenth - estimate ELSE estimate

\* worldToUvDepth: the value of depth before the clamp, in units of 10^-7
depthEstimate(worldPos, depthScale, depthBias, depthFlip) ==
    LET distance == Length(worldPos)
        estimate == ((distance - 100) * FinePerTenth) \div depthScale - depthBias * FinePerTenth
    IN  IF depthFlip THEN 10 * FinePerTenth - estimate ELSE estimate

\* worldToUvDepth that reads the depth off the distance and leaves the flip out
worldToUvDepth_NoFlip(worldPos, depthScale, depthBias, depthFlip) ==
    LET direction == Normalize(worldPos)
        u == Atan2Turns(direction[1], direction[3]) + 50
        v == AsinHalfTurns(direction[2]) + 50
        depth == Max(0, Min(10 * FinePerTenth,
                            depthEstimate(worldPos, depthScale, depthBias, FALSE)))
    IN  [u |-> u, v |-> v, d |-> depth \div FinePerTenth, fine |-> depth % FinePerTenth]

\* worldToUvDepth that clamps the depth from below only
worldToUvDepth_NoCeiling(worldPos, depthScale, depthBias, depthFlip) ==
    LET direction == Normalize(worldPos)
        u == Atan2Turns(direction[1], direction[3]) + 50
        v == AsinHalfTurns(direction[2]) + 50
        depth == Max(0, depthEstimate(worldPos, depthScale, depthBias, depthFlip))
    IN  [u |-> u, v |-> v, d |-> depth \div FinePerTenth, fine |-> depth % FinePerTenth]

\* worldToUvDepth: u, v in hundredths; d in tenths with its further decimals in fine
worldToUvDepth(worldPos, depthScale, depthBias, depthFlip) ==
    LET direction == Normalize(worldPos)
        u == Atan2Turns(direction[1], direction[3]) + 50
        v == AsinHalfTurns(direction[2]) + 50
        depth == Max(0, Min(10 * FinePerTenth,
                            depthEstimate(worldPos, depthScale, depthBias, depthFlip)))
    IN  [u |-> u, v |-> v, d |-> depth \div FinePerTenth, fine |-> depth % FinePerTenth]

\* main() of depthVertexShader with the scale applied before the bias
depthVertexShader_ScaleFirst(position, depthSample, depthScale, depthBias, depthFlip) ==
    LET flipped == IF depthFlip THEN 10 - depthSample ELSE depthSample
        depth == flipped * depthScale + depthBias * 10
        spherePos == Normalize(position)
    IN  [k \in 1..3 |-> spherePos[k] + (spherePos[k] * depth) \div 100]

\* main() of depthVertexShader: displacedPosition, in hundredths, of the vertex at
\* position for which texture2D(tDepth, depthUV).r is depthSample, in tenths
depthVertexShader(position, depthSample, depthScale, depthBias, depthFlip) ==
    LET flipped == IF depthFlip THEN 10 - depthSample ELSE depthSample
        depth == (flipped + depthBias) * depthScale
        spherePos == Normalize(position)
    IN  [k \in 1..3 |-> spherePos[k] + (spherePos[k] * depth) \div 100]

\* parseFloat(x.toFixed(6)) of the number with grid part c and decimals f below a grid
\* of unit: << grid part, decimals >> of the result
toFixed6(c, f, unit) ==
    LET r == ((f + FinePerMicro \div 2) \div FinePerMicro) * FinePerMicro
    IN  IF r >= unit THEN << IF c < 0 THEN c - 1 ELSE c + 1, 0 >> ELSE << c, r >>

(* ----------------------- hotspot lists (inputs) ----------------------- *)

\* the decimals of the numbers of a record that lie below the grid, in units of 10^-7
Fine(position, uv, d) == [position |-> position, uv |-> uv, d |-> d]

\* a record of hotspots.json; position, uv and d are <<>> when the record lacks them
HotspotData(id, type, target, position, uv, d, fine) ==
    [id |-> id, type |-> type, target |-> target, position |-> position, uv |-> uv, d |-> d,
     fine |-> fine]

\* the hotspots.json of each scene of the manifest
HotspotFile(sceneName) ==
    IF sceneName = "lobby"
    THEN << HotspotData("h1", "link", "hall", <<>>, <<50, 50>>, <<6>>,
                        Fine(<<>>, <<0, 0>>, <<0>>)),
            HotspotData("h2", "link", "lobby", <<150, 0, 0>>, <<>>, <<>>,
                        Fine(<<0, 0, 0>>, <<>>, <<>>)) >>
    ELSE << HotspotData("g1", "link", "lobby", <<>>, <<25, 50>>, <<4>>,
                        Fine(<<>>, <<4, 0>>, <<7>>)),
            HotspotData("g2", "info", "", <<>>, <<>>, <<>>,
                        Fine(<<>>, <<>>, <<>>)),
            HotspotData("g3", "link", AbsentScene, <<0, 0, -150>>, <<75, 50>>, <<4>>,
                        Fine(<<0, 0, 6>>, <<0, 0>>, <<0>>)),
            HotspotData("g4", "info", "", <<>>, <<50, 50>>, <<>>,
                        Fine(<<>>, <<0, 0>>, <<>>)),
            HotspotData("g5", "link", "", <<0, 150, 0>>, <<>>, <<>>,
                        Fine(<<0, 0, 0>>, <<>>, <<>>)) >>

(* ------------------------------- state -------------------------------- *)

VARIABLES
    initPc,          \* where init() stands: "config", "loading", "running", "failed"
    scenesData,      \* the "start" of the loaded manifest, NULL before it is loaded
    errorShown,      \* number of showError calls
    currentScene,    \* this.currentScene, a scene name or NULL
    currentMaterial, \* this.currentMaterial: the load that made it, 0 for null
    currentMesh,     \* this.currentMesh: the load that made it, 0 for null
    pickingMesh,     \* this.pickingMesh: the load that made it, 0 for null
    uniforms,        \* the uniforms of currentMaterial
    hotspots,        \* this.hotspots
    isAuthoringMode, depthScale, depthBias, depthFlip, debugDepth, seamFix, exposure,
    loadingVisible,  \* the loading overlay lacks the class "hidden"
    tasks,           \* the loadScene calls that passed the name check, by number
    nextId,          \* how many there are
    sceneMeshes,     \* displaced meshes that are children of this.scene
    scenePicking,    \* picking meshes that are children of this.scene
    disposed,        \* how many times each resource of each load was disposed
    listeners,       \* hotspot records whose element carries a click listener; no code
                     \* removes a listener, clearHotspots only takes the CSS2D object
                     \* out of the scene, so a listener outlives its hotspot
    timers,          \* pending setTimeout callbacks of onMouseClick
    exported,        \* what exportHotspots last wrote to the console, <<>> before any export
    events,          \* user input events still to come
    call             \* a call of the projection functions of shaders.js: its arguments
                     \* and, once made, its results

params == << isAuthoringMode, depthScale, depthBias, depthFlip, debugDepth, seamFix, exposure >>

meshVars == << currentMaterial, currentMesh, pickingMesh, uniforms, sceneMeshes, scenePicking, disposed >>

initVars == << initPc, scenesData, errorShown >>

loadVars == << tasks, nextId >>

\* the fields of the DepthTour object and of the page
programVars == << initVars, currentScene, meshVars, hotspots, params, loadingVisible, loadVars,
                  listeners, timers, exported, events >>

vars == << programVars, call >>

LoadIds == 1..MaxLoads

\* a loadScene call that has not been made
IdleTask == [pc |-> "idle", scene |-> NULL, color |-> "none", depth |-> "none"]

\* nothing of a load has been disposed
NoDisposals ==
    [color |-> 0, depth |-> 0, material |-> 0, geometry |-> 0, pickGeometry |-> 0, pickMaterial |-> 0]

\* the value of uniforms while there is no material
NoUniforms ==
    [tColor |-> 0, tDepth |-> 0, depthScale |-> 0, depthBias |-> 0, depthFlip |-> FALSE,
     debugDepth |-> FALSE, seamFix |-> 0, exposure |-> 0]

\* the state after new DepthTour(): the constructor has run init() up to the fetch of
\* scenes.json; budget user input events are to come
Start(budget) ==
    /\ initPc = "config"
    /\ scenesData = NULL
    /\ errorShown = 0
    /\ currentScene = NULL
    /\ currentMaterial = 0
    /\ currentMesh = 0
    /\ pickingMesh = 0
    /\ uniforms = NoUniforms
    /\ hotspots = << >>
    /\ isAuthoringMode = FALSE
    /\ depthScale = InitDepthScale
    /\ depthBias = InitDepthBias
    /\ depthFlip = FALSE
    /\ debugDepth = FALSE
    /\ seamFix = 0
    /\ exposure = InitExposure
    /\ loadingVisible \in BOOLEAN
    /\ tasks = [i \in LoadIds |-> IdleTask]
    /\ nextId = 0
    /\ sceneMeshes = {}
    /\ scenePicking = {}
    /\ disposed = [i \in LoadIds |-> NoDisposals]
    /\ listeners = {}
    /\ timers = 0
    /\ exported = << >>
    /\ events = budget

\* no call of a projection function is followed
NoCall == [op |-> "none"]

Init == Start(MaxEvents) /\ call = NoCall

(* ------------------------------ hotspots ------------------------------ *)

\* createHotspot that takes the uv and d of a record before its position
createHotspot_UVFirst(hotspotData, madeFor) ==
    IF hotspotData.uv # <<>> /\ hotspotData.d # <<>>
    THEN << [data |-> hotspotData,
             position |-> uvDepthToWorld(hotspotData.uv[1], hotspotData.uv[2], hotspotData.d[1],
                                         depthScale, depthBias, depthFlip),
             originalUV |-> hotspotData.uv, originalDepth |-> hotspotData.d,
             isWorldCoords |-> FALSE, madeFor |-> madeFor] >>
    ELSE IF hotspotData.position # <<>>
    THEN << [data |-> hotspotData, position |-> hotspotData.position,
             originalUV |-> hotspotData.uv, originalDepth |-> hotspotData.d,
             isWorldCoords |-> TRUE, madeFor |-> madeFor] >>
    ELSE << >>

\* createHotspot: the hotspot made from a record, <<>> when the record has no position data;
\* madeFor is the load the hotspot belongs to (bookkeeping, not a field of the program)
createHotspot(hotspotData, madeFor) ==
    IF hotspotData.position # <<>>
    THEN << [data |-> hotspotData, position |-> hotspotData.position,
             originalUV |-> hotspotData.uv, originalDepth |-> hotspotData.d,
             isWorldCoords |-> TRUE, madeFor |-> madeFor] >>
    ELSE IF hotspotData.uv # <<>> /\ hotspotData.d # <<>>
    THEN << [data |-> hotspotData,
             position |-> uvDepthToWorld(hotspotData.uv[1], hotspotData.uv[2], hotspotData.d[1],
                                         depthScale, depthBias, depthFlip),
             originalUV |-> hotspotData.uv, originalDepth |-> hotspotData.d,
             isWorldCoords |-> FALSE, madeFor |-> madeFor] >>
    ELSE << >>

\* hotspotsData.forEach(createHotspot) in which a record without position data ends the loop
RECURSIVE createHotspots_StopAtBad(_, _)
createHotspots_StopAtBad(hotspotsData, madeFor) ==
    IF hotspotsData = << >> \/ createHotspot(Head(hotspotsData), madeFor) = << >> THEN << >>
    ELSE createHotspot(Head(hotspotsData), madeFor)
             \o createHotspots_StopAtBad(Tail(hotspotsData), madeFor)

\* hotspotsData.forEach(createHotspot) on an empty list
RECURSIVE createHotspots(_, _)
createHotspots(hotspotsData, madeFor) ==
    IF hotspotsData = << >> THEN << >>
    ELSE createHotspot(Head(hotspotsData), madeFor) \o createHotspots(Tail(hotspotsData), madeFor)

\* the records of a list for which createHotspot registers a click listener
Registered(hotspotsData) ==
    {hotspotsData[i] : i \in {j \in DOMAIN hotspotsData : createHotspot(hotspotsData[j], 0) # << >>}}

\* updateHotspotPositions that leaves every hotspot where it is
updateHotspotPositions_Skip(hs, scale, bias, flip) == hs

\* updateHotspotPositions that ignores the isWorldCoords flag
updateHotspotPositions_AnyUV(hs, scale, bias, flip) ==
    [i \in DOMAIN hs |->
        IF hs[i].originalUV # <<>> /\ hs[i].originalDepth # <<>>
        THEN [hs[i] EXCEPT !.position =
                 uvDepthToWorld(hs[i].originalUV[1], hs[i].originalUV[2], hs[i].originalDepth[1],
                                scale, bias, flip)]
        ELSE hs[i]]

\* updateHotspotPositions under the given depth parameters
updateHotspotPositions(hs, scale, bias, flip) ==
    [i \in DOMAIN hs |->
        IF ~hs[i].isWorldCoords /\ hs[i].originalUV # <<>> /\ hs[i].originalDepth # <<>>
        THEN [hs[i] EXCEPT !.position =
                 uvDepthToWorld(hs[i].originalUV[1], hs[i].originalUV[2], hs[i].originalDepth[1],
                                scale, bias, flip)]
        ELSE hs[i]]

(* ---------------------------- key handlers ---------------------------- *)

\* toggleAuthoringMode (KeyA)
toggleAuthoringMode ==
    /\ events > 0
    /\ events' = events - 1
    /\ isAuthoringMode' = ~isAuthoringMode
    /\ UNCHANGED << initVars, currentScene, meshVars, hotspots, depthScale, depthBias, depthFlip,
                    debugDepth, seamFix, exposure, loadingVisible, loadVars, listeners, timers, exported,
                    call >>

\* toggleDebugDepth (KeyD)
toggleDebugDepth ==
    /\ events > 0
    /\ events' = events - 1
    /\ debugDepth' = ~debugDepth
    /\ uniforms' = IF currentMaterial # 0 THEN [uniforms EXCEPT !.debugDepth = ~debugDepth]
                   ELSE uniforms
    /\ UNCHANGED << initVars, currentScene, currentMaterial, currentMesh, pickingMesh,
                    sceneMeshes, scenePicking, disposed, hotspots, isAuthoringMode, depthScale,
                    depthBias, depthFlip, seamFix, exposure, loadingVisible, loadVars, listeners,
                    timers, exported, call >>

\* toggleDepthFlip that leaves the re-projection of the hotspots to a later time
toggleDepthFlip_NoReproject ==
    /\ events > 0
    /\ events' = events - 1
    /\ depthFlip' = ~depthFlip
    /\ uniforms' = IF currentMaterial # 0 THEN [uniforms EXCEPT !.depthFlip = ~depthFlip]
                   ELSE uniforms
    /\ UNCHANGED << initVars, currentScene, currentMaterial, currentMesh, pickingMesh,
                    sceneMeshes, scenePicking, disposed, hotspots, isAuthoringMode, depthScale,
                    depthBias, debugDepth, seamFix, exposure, loadingVisible, loadVars, listeners,
                    timers, exported, call >>

\* toggleDepthFlip that re-projects the hotspots under the flag it had before
depthFlipToggled_Stale(flip, unis, hs) ==
    [depthFlip |-> ~flip,
     uniforms |-> IF currentMaterial # 0 THEN [unis EXCEPT !.depthFlip = ~flip] ELSE unis,
     hotspots |-> updateHotspotPositions(hs, depthScale, depthBias, flip)]

\* toggleDepthFlip: the flag, the uniforms and the hotspot list after the call, when they
\* were flip, unis and hs before it
depthFlipToggled(flip, unis, hs) ==
    [depthFlip |-> ~flip,
     uniforms |-> IF currentMaterial # 0 THEN [unis EXCEPT !.depthFlip = ~flip] ELSE unis,
     hotspots |-> updateHotspotPositions(hs, depthScale, depthBias, ~flip)]

\* toggleDepthFlip (KeyF)
toggleDepthFlip ==
    /\ events > 0
    /\ events' = events - 1
    /\ depthFlip' = depthFlipToggled(depthFlip, uniforms, hotspots).depthFlip
    /\ uniforms' = depthFlipToggled(depthFlip, uniforms, hotspots).uniforms
    /\ hotspots' = depthFlipToggled(depthFlip, uniforms, hotspots).hotspots
    /\ UNCHANGED << initVars, currentScene, currentMaterial, currentMesh, pickingMesh,
                    sceneMeshes, scenePicking, disposed, isAuthoringMode, depthScale,
                    depthBias, debugDepth, seamFix, exposure, loadingVisible, loadVars, listeners,
                    timers, exported, call >>

\* adjustDepthScale without the Math.max
adjustDepthScale_NoFloor(delta) ==
    /\ events > 0
    /\ events' = events - 1
    /\ depthScale' = depthScale + delta
    /\ uniforms' = IF currentMaterial # 0 THEN [uniforms EXCEPT !.depthScale = depthScale']
                   ELSE uniforms
    /\ hotspots' = updateHotspotPositions(hotspots, depthScale', depthBias, depthFlip)
    /\ UNCHANGED << initVars, currentScene, currentMaterial, currentMesh, pickingMesh,
                    sceneMeshes, scenePicking, disposed, isAuthoringMode, depthBias, depthFlip,
                    debugDepth, seamFix, exposure, loadingVisible, loadVars, listeners, timers,
                    exported, call >>

\* adjustDepthScale(delta) (KeyK: -0.5, KeyL: +0.5)
adjustDepthScale(delta) ==
    /\ events > 0
    /\ events' = events - 1
    /\ depthScale' = Max(MinDepthScale, depthScale + delta)
    /\ uniforms' = IF currentMaterial # 0 THEN [uniforms EXCEPT !.depthScale = depthScale']
                   ELSE uniforms
    /\ hotspots' = updateHotspotPositions(hotspots, depthScale', depthBias, depthFlip)
    /\ UNCHANGED << initVars, currentScene, currentMaterial, currentMesh, pickingMesh,
                    sceneMeshes, scenePicking, disposed, isAuthoringMode, depthBias, depthFlip,
                    debugDepth, seamFix, exposure, loadingVisible, loadVars, listeners, timers, exported,
                    call >>

\* adjustExposure whose floor is zero
adjustExposure_ZeroFloor(delta) ==
    /\ events > 0
    /\ events' = events - 1
    /\ exposure' = Max(0, exposure + delta)
    /\ uniforms' = IF currentMaterial # 0 THEN [uniforms EXCEPT !.exposure = exposure']
                   ELSE uniforms
    /\ UNCHANGED << initVars, currentScene, currentMaterial, currentMesh, pickingMesh,
                    sceneMeshes, scenePicking, disposed, hotspots, isAuthoringMode, depthScale,
                    depthBias, depthFlip, debugDepth, seamFix, loadingVisible, loadVars,
                    listeners, timers, exported, call >>

\* adjustExposure(delta) (KeyO: -0.2, KeyP: +0.2)
adjustExposure(delta) ==
    /\ events > 0
    /\ events' = events - 1
    /\ exposure' = Max(MinExposure, exposure + delta)
    /\ uniforms' = IF currentMaterial # 0 THEN [uniforms EXCEPT !.exposure = exposure']
                   ELSE uniforms
    /\ UNCHANGED << initVars, currentScene, currentMaterial, currentMesh, pickingMesh,
                    sceneMeshes, scenePicking, disposed, hotspots, isAuthoringMode, depthScale,
                    depthBias, depthFlip, debugDepth, seamFix, loadingVisible, loadVars,
                    listeners, timers, exported, call >>

\* the decimals below the grid of a hotspot's position: those of the record's position
\* for a world-anchored hotspot, none for a position computed on the grid
PositionFine(h) == IF h.isWorldCoords THEN h.data.fine.position ELSE << 0, 0, 0 >>

\* the exported record when uv and d are always derived from the position
exportRecord_AlwaysDerived(h, scale, bias, flip) ==
    LET pos == [k \in 1..3 |-> toFixed6(h.position[k], PositionFine(h)[k], FinePerHundredth)]
        uvDepth == worldToUvDepth(h.position, scale, bias, flip)
        kept == FALSE
        uv == IF kept
              THEN [k \in 1..2 |-> toFixed6(h.originalUV[k], h.data.fine.uv[k], FinePerHundredth)]
              ELSE << toFixed6(uvDepth.u, 0, FinePerHundredth),
                      toFixed6(uvDepth.v, 0, FinePerHundredth) >>
        d == IF kept
             THEN toFixed6(h.originalDepth[1], h.data.fine.d[1], FinePerTenth)
             ELSE toFixed6(uvDepth.d, uvDepth.fine, FinePerTenth)
    IN  [h.data EXCEPT !.position = << pos[1][1], pos[2][1], pos[3][1] >>,
                       !.uv = << uv[1][1], uv[2][1] >>,
                       !.d = << d[1] >>,
                       !.fine = Fine(<< pos[1][2], pos[2][2], pos[3][2] >>,
                                     << uv[1][2], uv[2][2] >>, << d[2] >>)]

\* the exported record when worldToUvDepth is called without the depth parameters
exportRecord_DefaultParams(h, scale, bias, flip) ==
    LET pos == [k \in 1..3 |-> toFixed6(h.position[k], PositionFine(h)[k], FinePerHundredth)]
        uvDepth == worldToUvDepth(h.position, InitDepthScale, InitDepthBias, FALSE)
        kept == h.originalUV # << >> /\ h.originalDepth # << >>
        uv == IF kept
              THEN [k \in 1..2 |-> toFixed6(h.originalUV[k], h.data.fine.uv[k], FinePerHundredth)]
              ELSE << toFixed6(uvDepth.u, 0, FinePerHundredth),
                      toFixed6(uvDepth.v, 0, FinePerHundredth) >>
        d == IF kept
             THEN toFixed6(h.originalDepth[1], h.data.fine.d[1], FinePerTenth)
             ELSE toFixed6(uvDepth.d, uvDepth.fine, FinePerTenth)
    IN  [h.data EXCEPT !.position = << pos[1][1], pos[2][1], pos[3][1] >>,
                       !.uv = << uv[1][1], uv[2][1] >>,
                       !.d = << d[1] >>,
                       !.fine = Fine(<< pos[1][2], pos[2][2], pos[3][2] >>,
                                     << uv[1][2], uv[2][2] >>, << d[2] >>)]

\* exportHotspots: the record exported for hotspot h under the given depth parameters
exportRecord(h, scale, bias, flip) ==
    LET pos == [k \in 1..3 |-> toFixed6(h.position[k], PositionFine(h)[k], FinePerHundredth)]
        uvDepth == worldToUvDepth(h.position, scale, bias, flip)
        kept == h.originalUV # << >> /\ h.originalDepth # << >>
        uv == IF kept
              THEN [k \in 1..2 |-> toFixed6(h.originalUV[k], h.data.fine.uv[k], FinePerHundredth)]
              ELSE << toFixed6(uvDepth.u, 0, FinePerHundredth),
                      toFixed6(uvDepth.v, 0, FinePerHundredth) >>
        d == IF kept
             THEN toFixed6(h.originalDepth[1], h.data.fine.d[1], FinePerTenth)
             ELSE toFixed6(uvDepth.d, uvDepth.fine, FinePerTenth)
    IN  [h.data EXCEPT !.position = << pos[1][1], pos[2][1], pos[3][1] >>,
                       !.uv = << uv[1][1], uv[2][1] >>,
                       !.d = << d[1] >>,
                       !.fine = Fine(<< pos[1][2], pos[2][2], pos[3][2] >>,
                                     << uv[1][2], uv[2][2] >>, << d[2] >>)]

\* exportHotspots: exportData, the value of this.hotspots.map(...)
exportData(hs, scale, bias, flip) ==
    [i \in DOMAIN hs |-> exportRecord(hs[i], scale, bias, flip)]

\* KeyE with an exportHotspots that writes the exported values into hotspot.data
exportHotspots_InPlace ==
    /\ events > 0
    /\ events' = events - 1
    /\ IF isAuthoringMode
       THEN /\ exported' = << exportData(hotspots, depthScale, depthBias, depthFlip) >>
            /\ hotspots' = [i \in DOMAIN hotspots |->
                               [hotspots[i] EXCEPT !.data = exported'[1][i]]]
       ELSE UNCHANGED << exported, hotspots >>
    /\ UNCHANGED << initVars, currentScene, meshVars, params, loadingVisible, loadVars,
                    listeners, timers, call >>

\* KeyE with an onKeyDown that calls exportHotspots in either mode
exportHotspots_Always ==
    /\ events > 0
    /\ events' = events - 1
    /\ exported' = << exportData(hotspots, depthScale, depthBias, depthFlip) >>
    /\ UNCHANGED << initVars, currentScene, meshVars, hotspots, params, loadingVisible, loadVars,
                    listeners, timers, call >>

\* KeyE: exportHotspots, in authoring mode only
exportHotspots ==
    /\ events > 0
    /\ events' = events - 1
    /\ exported' = IF isAuthoringMode
                   THEN << exportData(hotspots, depthScale, depthBias, depthFlip) >>
                   ELSE exported
    /\ UNCHANGED << initVars, currentScene, meshVars, hotspots, params, loadingVisible, loadVars,
                    listeners, timers, call >>

\* onKeyDown, for the keys that change a parameter
onKeyDown ==
    \/ toggleAuthoringMode
    \/ toggleDebugDepth
    \/ toggleDepthFlip
    \/ adjustDepthScale(-DepthScaleStep)
    \/ adjustDepthScale(DepthScaleStep)
    \/ adjustExposure(-ExposureStep)
    \/ adjustExposure(ExposureStep)
    \/ exportHotspots

\* animate: one frame of the render loop, running once init() has started it;
\* a frame reads the uniforms and the hotspot positions and writes nothing
animate ==
    /\ initPc = "running"
    /\ UNCHANGED << initVars, currentScene, meshVars, hotspots, params, loadingVisible, loadVars,
                    listeners, timers, exported, events, call >>

(* --------------------- scene resources and disposal ------------------- *)

\* one more disposal of resource kind of load id
Dispose(d, id, kind) == [d EXCEPT ![id][kind] = @ + 1]

\* the disposal counts after disposeCurrentScene
disposeCounts ==
    LET d1 == IF currentMesh # 0 THEN Dispose(disposed, currentMesh, "geometry") ELSE disposed
        d2 == IF pickingMesh # 0 THEN Dispose(d1, pickingMesh, "pickGeometry") ELSE d1
        d3 == IF currentMaterial # 0 /\ uniforms.tColor # 0
              THEN Dispose(d2, uniforms.tColor, "color") ELSE d2
        d4 == IF currentMaterial # 0 /\ uniforms.tDepth # 0
              THEN Dispose(d3, uniforms.tDepth, "depth") ELSE d3
    IN  IF currentMaterial # 0 THEN Dispose(d4, currentMaterial, "material") ELSE d4

\* clearHotspots: the hotspot list afterwards
clearHotspots == << >>

\* disposeCurrentScene that leaves the picking mesh in place
disposeCurrentScene_KeepPicking ==
    /\ sceneMeshes' = sceneMeshes \ {currentMesh}
    /\ scenePicking' = scenePicking
    /\ disposed' = disposeCounts
    /\ currentMesh' = 0
    /\ pickingMesh' = pickingMesh
    /\ currentMaterial' = 0
    /\ uniforms' = NoUniforms
    /\ hotspots' = clearHotspots

\* disposeCurrentScene
disposeCurrentScene ==
    /\ sceneMeshes' = sceneMeshes \ {currentMesh}
    /\ scenePicking' = scenePicking \ {pickingMesh}
    /\ disposed' = disposeCounts
    /\ currentMesh' = 0
    /\ pickingMesh' = 0
    /\ currentMaterial' = 0
    /\ uniforms' = NoUniforms
    /\ hotspots' = clearHotspots

\* x || fallback of JavaScript, on numbers
OrDefault(x, fallback) == IF x = 0 THEN fallback ELSE x

\* createDepthMaterial called without options: every uniform gets its default
createDepthMaterial_Defaults(colorTexture, depthTexture) ==
    [tColor |-> colorTexture, tDepth |-> depthTexture,
     depthScale |-> InitDepthScale,
     depthBias |-> InitDepthBias,
     depthFlip |-> FALSE, debugDepth |-> FALSE,
     seamFix |-> 0,
     exposure |-> InitExposure]

\* createDepthMaterial(colorTexture, depthTexture, options): the uniforms of the new material
createDepthMaterial(colorTexture, depthTexture) ==
    [tColor |-> colorTexture, tDepth |-> depthTexture,
     depthScale |-> OrDefault(depthScale, InitDepthScale),
     depthBias |-> OrDefault(depthBias, InitDepthBias),
     depthFlip |-> depthFlip, debugDepth |-> debugDepth,
     seamFix |-> OrDefault(seamFix, 0),
     exposure |-> OrDefault(exposure, InitExposure)]

\* createSceneMesh with the textures loaded by load id
createSceneMesh(id) ==
    /\ currentMaterial' = id
    /\ uniforms' = createDepthMaterial(id, id)
    /\ currentMesh' = id
    /\ sceneMeshes' = sceneMeshes \cup {id}
    /\ pickingMesh' = id
    /\ scenePicking' = scenePicking \cup {id}
    /\ UNCHANGED disposed

(* ----------------------------- loadScene ------------------------------ *)

\* loadScene that calls showLoading before it checks the scene name
loadScene_LoadingFirst(manifest, sceneName) ==
    /\ loadingVisible' = TRUE
    /\ IF manifest = NULL \/ sceneName \notin SceneNames
       THEN UNCHANGED << currentScene, meshVars, hotspots, loadVars >>
       ELSE /\ nextId < MaxLoads
            /\ disposeCurrentScene
            /\ nextId' = nextId + 1
            /\ tasks' = [tasks EXCEPT ![nextId + 1] =
                            [pc |-> "textures", scene |-> sceneName,
                             color |-> "pngPending", depth |-> "exrPending"]]
            /\ UNCHANGED currentScene

\* loadScene(sceneName) up to its first await, called while this.scenesData is manifest:
\* the name check, showLoading, disposeCurrentScene and the start of both asset chains
loadScene(manifest, sceneName) ==
    IF manifest = NULL \/ sceneName \notin SceneNames
    THEN UNCHANGED << currentScene, meshVars, hotspots, loadingVisible, loadVars >>
    ELSE /\ nextId < MaxLoads
         /\ loadingVisible' = TRUE
         /\ disposeCurrentScene
         /\ nextId' = nextId + 1
         /\ tasks' = [tasks EXCEPT ![nextId + 1] =
                         [pc |-> "textures", scene |-> sceneName,
                          color |-> "pngPending", depth |-> "exrPending"]]
         /\ UNCHANGED currentScene

\* loadColorTexture that gives up when pano.png fails
loadColorTexture_NoFallback(state, loaded) ==
    CASE state = "pngPending" -> IF loaded THEN "png" ELSE "failed"
      [] state = "jpgPending" -> IF loaded THEN "jpg" ELSE "failed"

\* loadColorTexture: the state of the color chain after a request ends
loadColorTexture(state, loaded) ==
    CASE state = "pngPending" -> IF loaded THEN "png" ELSE "jpgPending"
      [] state = "jpgPending" -> IF loaded THEN "jpg" ELSE "failed"

\* loadDepthTexture that rejects when depth.png fails too, as loadColorTexture does
loadDepthTexture_Rethrow(state, loaded) ==
    CASE state = "exrPending" -> IF loaded THEN "exr" ELSE "pngPending"
      [] state = "pngPending" -> IF loaded THEN "png" ELSE "failed"

\* loadDepthTexture: the state of the depth chain after a request ends
loadDepthTexture(state, loaded) ==
    CASE state = "exrPending" -> IF loaded THEN "exr" ELSE "pngPending"
      [] state = "pngPending" -> IF loaded THEN "png" ELSE "flat"

ColorResolved(t) == t.color \in {"png", "jpg"}

DepthResolved(t) == t.depth \in {"exr", "png", "flat"}

\* loadSceneTextures that awaits the color load alone
AllResolved_ColorOnly(t) == t.color \in {"png", "jpg"}

\* Promise.all(loadPromises) of loadSceneTextures has resolved
AllResolved(t) == ColorResolved(t) /\ DepthResolved(t)

\* Promise.all(loadPromises) of loadSceneTextures has rejected
AnyRejected(t) == t.color = "failed" \/ t.depth = "failed"

\* init() that reports a failed start load and starts the render loop all the same
InitSettles_AnimateAnyway(id, resolved) ==
    IF initPc = "loading" /\ id = 1
    THEN /\ initPc' = "running"
         /\ errorShown' = IF resolved THEN errorShown ELSE errorShown + 1
         /\ UNCHANGED scenesData
    ELSE UNCHANGED initVars

\* init() after its await of loadScene(start): animate() on success, showError on failure
InitSettles(id, resolved) ==
    IF initPc = "loading" /\ id = 1
    THEN /\ initPc' = IF resolved THEN "running" ELSE "failed"
         /\ errorShown' = IF resolved THEN errorShown ELSE errorShown + 1
         /\ UNCHANGED scenesData
    ELSE UNCHANGED initVars

\* loadScene without the finally block: a rejected load leaves the loading overlay up
AfterTextures_NoFinally(id, t) ==
    IF AnyRejected(t)
    THEN /\ tasks' = [tasks EXCEPT ![id] = [t EXCEPT !.pc = "rejected"]]
         /\ InitSettles(id, FALSE)
         /\ UNCHANGED << currentScene, meshVars, hotspots, loadingVisible >>
    ELSE IF AllResolved(t)
    THEN /\ tasks' = [tasks EXCEPT ![id] = [t EXCEPT !.pc = "fetch"]]
         /\ createSceneMesh(id)
         /\ UNCHANGED << currentScene, hotspots, loadingVisible, initVars >>
    ELSE /\ tasks' = [tasks EXCEPT ![id] = t]
         /\ UNCHANGED << currentScene, meshVars, hotspots, loadingVisible, initVars >>

\* loadScene after loadSceneTextures has settled for load id, whose record is now t
AfterTextures(id, t) ==
    IF AnyRejected(t)
    THEN \* catch, rethrow; finally hideLoading
         /\ tasks' = [tasks EXCEPT ![id] = [t EXCEPT !.pc = "rejected"]]
         /\ loadingVisible' = FALSE
         /\ InitSettles(id, FALSE)
         /\ UNCHANGED << currentScene, meshVars, hotspots >>
    ELSE IF AllResolved(t)
    THEN \* createSceneMesh, then loadHotspots up to its fetch
         /\ tasks' = [tasks EXCEPT ![id] = [t EXCEPT !.pc = "fetch"]]
         /\ createSceneMesh(id)
         /\ UNCHANGED << currentScene, hotspots, loadingVisible, initVars >>
    ELSE /\ tasks' = [tasks EXCEPT ![id] = t]
         /\ UNCHANGED << currentScene, meshVars, hotspots, loadingVisible, initVars >>

\* a request of the color chain of load id ends
ColorRequestEnds(id, loaded) ==
    /\ tasks[id].color \in {"pngPending", "jpgPending"}
    /\ AfterTextures(id, [tasks[id] EXCEPT !.color = loadColorTexture(@, loaded)])
    /\ UNCHANGED << nextId, params, listeners, timers, exported, events, call >>

\* a request of the depth chain of load id ends
DepthRequestEnds(id, loaded) ==
    /\ tasks[id].depth \in {"exrPending", "pngPending"}
    /\ IF tasks[id].pc = "textures"
       THEN AfterTextures(id, [tasks[id] EXCEPT !.depth = loadDepthTexture(@, loaded)])
       ELSE \* the load was rejected already; the depth chain runs on
            /\ tasks' = [tasks EXCEPT ![id].depth = loadDepthTexture(@, loaded)]
            /\ UNCHANGED << currentScene, meshVars, hotspots, loadingVisible, initVars >>
    /\ UNCHANGED << nextId, params, listeners, timers, exported, events, call >>

\* loadScene that does not record the scene it has loaded
AfterHotspots_NoUpdate(id) ==
    /\ tasks' = [tasks EXCEPT ![id].pc = "done"]
    /\ UNCHANGED currentScene
    /\ loadingVisible' = FALSE
    /\ InitSettles(id, TRUE)

\* loadScene after loadHotspots has returned for load id
AfterHotspots(id) ==
    /\ tasks' = [tasks EXCEPT ![id].pc = "done"]
    /\ currentScene' = tasks[id].scene
    /\ loadingVisible' = FALSE
    /\ InitSettles(id, TRUE)

\* the fetch of hotspots.json ends for load id: "ok", "notok" (response.ok false) or "throws"
HotspotsFetched(id, outcome) ==
    /\ tasks[id].pc = "fetch"
    /\ IF outcome = "ok"
       THEN /\ tasks' = [tasks EXCEPT ![id].pc = "json"]
            /\ UNCHANGED << currentScene, loadingVisible, initVars >>
       ELSE AfterHotspots(id)
    /\ UNCHANGED << meshVars, hotspots, nextId, params, listeners, timers, exported, events, call >>

\* response.json() ends for load id: it gives the "list" of the file, a value that is
\* "notList" (forEach throws after clearHotspots has run), or it "throws"
HotspotsParsed(id, outcome) ==
    /\ tasks[id].pc = "json"
    /\ IF outcome = "list"
       THEN /\ hotspots' = clearHotspots \o createHotspots(HotspotFile(tasks[id].scene), id)
            /\ listeners' = listeners \cup Registered(HotspotFile(tasks[id].scene))
       ELSE IF outcome = "notList"
       THEN /\ hotspots' = clearHotspots
            /\ UNCHANGED listeners
       ELSE UNCHANGED << hotspots, listeners >>
    /\ AfterHotspots(id)
    /\ UNCHANGED << meshVars, nextId, params, timers, exported, events, call >>

(* -------------------------------- init -------------------------------- *)

\* loadScenesConfig ends; on success init() goes on to loadScene(scenesData.start),
\* and a rejection of that call is caught by init(), which calls showError
ConfigLoaded(loaded, start) ==
    /\ initPc = "config"
    /\ IF loaded
       THEN /\ scenesData' = start
            /\ loadScene(start, start)
            /\ initPc' = IF start \in SceneNames THEN "loading" ELSE "failed"
            /\ errorShown' = IF start \in SceneNames THEN errorShown ELSE errorShown + 1
       ELSE /\ initPc' = "failed"
            /\ errorShown' = errorShown + 1
            /\ UNCHANGED << scenesData, currentScene, meshVars, hotspots, loadingVisible, loadVars >>
    /\ UNCHANGED << params, listeners, timers, exported, events, call >>

(* ------------------------- hotspots and clicks ------------------------ *)

\* onHotspotClick(hotspotData), the click listener that createHotspot registers
onHotspotClick(hotspotData) ==
    /\ hotspotData \in listeners
    /\ IF hotspotData.type = "link" /\ hotspotData.target # "" /\ hotspotData.target \in SceneNames
       THEN loadScene(scenesData, hotspotData.target)
       ELSE \* a warning, or the info popup
            UNCHANGED << currentScene, meshVars, hotspots, loadingVisible, loadVars >>
    /\ events > 0
    /\ events' = events - 1
    /\ UNCHANGED << initVars, params, listeners, timers, exported, call >>

\* onMouseClick: in authoring mode, handleAuthoringClick is scheduled 100 ms later
onMouseClick ==
    /\ events > 0
    /\ events' = events - 1
    /\ timers' = IF isAuthoringMode THEN timers + 1 ELSE timers
    /\ UNCHANGED << initVars, currentScene, meshVars, hotspots, params, loadingVisible, loadVars,
                    listeners, exported, call >>

\* the texture coordinates at which the ray of a click may meet the mesh
HitUVs == { <<50, 50>>, <<75, 50>> }

\* intersection.point: the Raycaster intersects the sphere geometry of the mesh
HitPoint(uv) == [k \in 1..3 |-> SpherePoint(uv[1], uv[2])[k] * SphereRadius]

\* the record handleAuthoringClick builds for a hit at uv
PlacedData(uv) ==
    LET position == HitPoint(uv)
        distance == Length(position)
        depth == IF currentMaterial # 0 /\ uniforms.tDepth # 0
                 THEN Max(0, Min(10, (distance - SphereRadius) \div depthScale))
                 ELSE 5
    IN  HotspotData("placed", "info", "", position, uv, <<depth>>,
                    Fine(<<0, 0, 0>>, <<3, 6>>, <<0>>))

\* handleAuthoringClick(event), run by the timer; hit is <<>> when the ray meets nothing
handleAuthoringClick(hit) ==
    /\ timers > 0
    /\ timers' = timers - 1
    /\ IF pickingMesh # 0 /\ currentMesh # 0 /\ hit # << >>
       THEN /\ hotspots' = hotspots \o createHotspot(PlacedData(hit), currentMesh)
            /\ listeners' = listeners \cup {PlacedData(hit)}
       ELSE UNCHANGED << hotspots, listeners >>
    /\ UNCHANGED << initVars, currentScene, meshVars, params, loadingVisible, loadVars, exported,
                    events, call >>

(* --------------------------- specification ---------------------------- *)

Next ==
    \/ \E loaded \in BOOLEAN, start \in StartNames : ConfigLoaded(loaded, start)
    \/ \E id \in LoadIds, loaded \in BOOLEAN : ColorRequestEnds(id, loaded)
    \/ \E id \in LoadIds, loaded \in BOOLEAN : DepthRequestEnds(id, loaded)
    \/ \E id \in LoadIds, outcome \in {"ok", "notok", "throws"} : HotspotsFetched(id, outcome)
    \/ \E id \in LoadIds, outcome \in {"list", "notList", "throws"} : HotspotsParsed(id, outcome)
    \/ \E hotspotData \in listeners : onHotspotClick(hotspotData)
    \/ onKeyDown
    \/ onMouseClick
    \/ \E hit \in HitUVs \cup { << >> } : handleAuthoringClick(hit)
    \/ animate

Spec == Init /\ [][Next]_vars

\* a request that was sent ends: an image load or a fetch is answered or fails
RequestEnds ==
    \/ \E id \in LoadIds, loaded \in BOOLEAN : ColorRequestEnds(id, loaded)
    \/ \E id \in LoadIds, loaded \in BOOLEAN : DepthRequestEnds(id, loaded)
    \/ \E id \in LoadIds, outcome \in {"ok", "notok", "throws"} : HotspotsFetched(id, outcome)
    \/ \E id \in LoadIds, outcome \in {"list", "notList", "throws"} : HotspotsParsed(id, outcome)

\* while requests are pending, one of them ends
RequestsEnd == WF_vars(RequestEnds)

LoadInit == Start(MaxClicks) /\ call = NoCall

\* startup, the requests of the loads and the clicks on hotspots
LoadNext ==
    \/ \E loaded \in BOOLEAN, start \in StartNames : ConfigLoaded(loaded, start)
    \/ \E id \in LoadIds, loaded \in BOOLEAN : ColorRequestEnds(id, loaded)
    \/ \E id \in LoadIds, loaded \in BOOLEAN : DepthRequestEnds(id, loaded)
    \/ \E id \in LoadIds, outcome \in {"ok", "notok", "throws"} : HotspotsFetched(id, outcome)
    \/ \E id \in LoadIds, outcome \in {"list", "notList", "throws"} : HotspotsParsed(id, outcome)
    \/ \E hotspotData \in listeners : onHotspotClick(hotspotData)

\* scene loading on its own, when every request ends
LoadSpec == LoadInit /\ [][LoadNext]_vars /\ RequestsEnd

\* the keyboard alone, from the moment the listeners are set up
KeyInit == Start(MaxKeys) /\ call = NoCall

KeySpec == KeyInit /\ [][onKeyDown]_vars

(* ------------------ the projection functions on their own -------------- *)

\* u on the quarter grid, v at the poles and on the equator, d in tenths of [0, 1]
UValues == {0, 25, 50, 75, 100}

VValues == {0, 50, 100}

DValues == 0..10

\* depthScale from 0.5 upwards, depthBias on either side of 0, in tenths
ScaleValues == {MinDepthScale + DepthScaleStep * k : k \in 0..MaxScaleSteps}

BiasValues == {5 * k : k \in -MaxBiasSteps..MaxBiasSteps}

\* this.seamFix, in hundredths of the panorama width
SeamFixValues == {0, 25}

\* world positions: the origin, points inside the unit sphere, on it and outside it
WorldPositions ==
    { << 0, 0, 0 >>, << 0, 0, 50 >>, << -30, 0, 0 >>, << 0, 100, 0 >>, << 0, 0, -400 >>,
      << 250, 0, 0 >>, << 0, -900, 0 >> }

\* the arguments of a call of uvDepthToWorld, which the vertex shader runs beside on the
\* vertex of the sphere at (u, v) with depth sample d, and worldToUvDepth after on its result
ForwardCalls ==
    [op : {"uvDepthToWorld"}, u : UValues, v : VValues, d : DValues,
     depthScale : ScaleValues, depthBias : BiasValues, depthFlip : BOOLEAN,
     seamFix : SeamFixValues, worldPos : {<< >>},
     world : {<< >>}, vertex : {<< >>}, uvDepth : {<< >>}]

\* the arguments of a call of worldToUvDepth on a world position
InverseCalls ==
    [op : {"worldToUvDepth"}, u : {0}, v : {0}, d : {0},
     depthScale : ScaleValues, depthBias : BiasValues, depthFlip : BOOLEAN,
     seamFix : {0}, worldPos : WorldPositions,
     world : {<< >>}, vertex : {<< >>}, uvDepth : {<< >>}]

ProjInit == Start(0) /\ ~loadingVisible /\ call \in ForwardCalls \cup InverseCalls

\* uvDepthToWorld(u, v, d, depthScale, depthBias, depthFlip) returns
CallUvDepthToWorld ==
    /\ call.op = "uvDepthToWorld"
    /\ call.world = << >>
    /\ call' = [call EXCEPT !.world = uvDepthToWorld(call.u, call.v, call.d, call.depthScale,
                                                      call.depthBias, call.depthFlip)]
    /\ UNCHANGED programVars

\* the vertex stage runs on the vertex that SphereGeometry puts in direction (u, v)
RunVertexShader ==
    /\ call.op = "uvDepthToWorld"
    /\ call.vertex = << >>
    /\ call' = [call EXCEPT !.vertex =
                    depthVertexShader([k \in 1..3 |-> SpherePoint(call.u, call.v)[k] * SphereRadius],
                                      call.d, call.depthScale, call.depthBias, call.depthFlip)]
    /\ UNCHANGED programVars

\* worldToUvDepth returns, called on worldPos or on the result of uvDepthToWorld
CallWorldToUvDepth ==
    /\ call.op = "worldToUvDepth" \/ (call.op = "uvDepthToWorld" /\ call.world # << >>)
    /\ call.uvDepth = << >>
    /\ call' = [call EXCEPT !.uvDepth =
                    << worldToUvDepth(IF call.op = "worldToUvDepth" THEN call.worldPos
                                      ELSE call.world,
                                      call.depthScale, call.depthBias, call.depthFlip) >>]
    /\ UNCHANGED programVars

ProjNext == CallUvDepthToWorld \/ RunVertexShader \/ CallWorldToUvDepth

ProjSpec == ProjInit /\ [][ProjNext]_vars

(* ------------------------------- claims ------------------------------- *)

Hotspots == {hotspots[i] : i \in DOMAIN hotspots}

\* a hotspot made from a record with uv and d and no position
UVAnchored(h) == h.data.position = <<>> /\ h.data.uv # <<>> /\ h.data.d # <<>>

\* a hotspot made from a record that carries a position
WorldAnchored(h) == h.data.position # <<>>

ParamsChanged == depthFlip \/ depthScale # InitDepthScale

\* C1: in every reachable state, every UV-anchored hotspot stands at
\* uvDepthToWorld(originalUV, originalDepth) under the current depthScale,
\* depthBias and depthFlip.
C1_UVAnchoredFollowParams ==
    \A h \in Hotspots :
        UVAnchored(h) =>
            h.position = uvDepthToWorld(h.originalUV[1], h.originalUV[2], h.originalDepth[1],
                                        depthScale, depthBias, depthFlip)

\* C1 witness: a UV-anchored hotspot after a change of scale or flip, moved
\* away from where the initial parameters put it
C1_Witness ==
    /\ ParamsChanged
    /\ \E h \in Hotspots :
          /\ UVAnchored(h)
          /\ h.position # uvDepthToWorld(h.originalUV[1], h.originalUV[2], h.originalDepth[1],
                                         InitDepthScale, InitDepthBias, FALSE)

\* C2: a world-anchored hotspot never moves: in every reachable state its
\* position is the position its record gave it, whatever keys were pressed.
C2_WorldAnchoredFixed ==
    \A h \in Hotspots : WorldAnchored(h) => h.position = h.data.position

\* C2 witness: a world-anchored hotspot that also has uv and d, after a change
\* of scale or flip
C2_Witness ==
    /\ ParamsChanged
    /\ \E h \in Hotspots : WorldAnchored(h) /\ h.originalUV # <<>> /\ h.originalDepth # <<>>

\* a load that passed the name check and has not settled
InFlight(id) == tasks[id].pc \in {"textures", "fetch", "json"}

\* a load for which createSceneMesh has run
MeshCreated(id) == tasks[id].pc \in {"fetch", "json", "done"}

\* load a is in flight while a load started after it has completed and is current
Stale(a) ==
    /\ InFlight(a)
    /\ \E b \in LoadIds : b > a /\ tasks[b].pc = "done" /\ currentScene = tasks[b].scene

\* C3: once a newer loadScene has completed and set currentScene, no step of
\* an older load that is still in flight creates a mesh or a material,
\* replaces the hotspot list or sets currentScene.
C3_StaleLoadNotApplied ==
    [][\A a \in LoadIds :
          (Stale(a) /\ tasks'[a] # tasks[a]) =>
              UNCHANGED << currentMesh, pickingMesh, currentMaterial, hotspots, currentScene >>]_vars

\* C4: every geometry, material and texture of a load whose mesh was created
\* is either disposed or referenced by currentMesh, pickingMesh or
\* currentMaterial, and the Three.js scene holds at most one displaced mesh
\* and at most one picking mesh.
C4_NoLeak ==
    /\ Cardinality(sceneMeshes) <= 1
    /\ Cardinality(scenePicking) <= 1
    /\ \A id \in LoadIds :
          MeshCreated(id) =>
              /\ disposed[id].geometry = 0 => currentMesh = id
              /\ disposed[id].pickGeometry = 0 => pickingMesh = id
              /\ disposed[id].pickMaterial = 0 => pickingMesh = id
              /\ disposed[id].material = 0 => currentMaterial = id
              /\ disposed[id].color = 0 => (currentMaterial = id /\ uniforms.tColor = id)
              /\ disposed[id].depth = 0 => (currentMaterial = id /\ uniforms.tDepth = id)

\* the resources of load id that disposeCurrentScene releases were each released once
ReleasedOnce(id) ==
    /\ disposed[id].color = 1
    /\ disposed[id].depth = 1
    /\ disposed[id].material = 1
    /\ disposed[id].geometry = 1

\* C5: the color texture, depth texture, displacement material and mesh
\* geometry of a scene are never disposed twice, they have each been disposed
\* once as soon as the scene's mesh and material are no longer the current
\* ones (so before the next scene's are created), and a disposeCurrentScene
\* that finds nothing to release disposes nothing.
C5_DisposedExactlyOnce ==
    /\ [](\A id \in LoadIds :
             /\ \A kind \in DOMAIN NoDisposals : disposed[id][kind] <= 1
             /\ (MeshCreated(id) /\ ~(currentMesh = id /\ currentMaterial = id)) => ReleasedOnce(id))
    /\ [][(nextId' = nextId + 1 /\ currentMesh = 0 /\ pickingMesh = 0 /\ currentMaterial = 0)
             => disposed' = disposed]_vars

\* C6: when a loadScene(X) completes and sets currentScene, every hotspot of
\* the list that came from a hotspots.json came from the hotspots.json of X,
\* read by a load of X.
C6_BulkDestroyedOnSceneChange ==
    [][\A x \in LoadIds :
          (tasks[x].pc # "done" /\ tasks'[x].pc = "done") =>
              \A i \in DOMAIN hotspots' :
                  hotspots'[i].data.id # "placed" =>
                      tasks[hotspots'[i].madeFor].scene = tasks[x].scene]_vars

\* C7: in every state a frame can render, with a material in place, every
\* UV-anchored hotspot stands where the material's depthScale, depthBias and
\* depthFlip uniforms put it: no frame sees new uniforms with old positions.
C7_FrameSeesConsistentState ==
    (initPc = "running" /\ currentMaterial # 0) =>
        \A h \in Hotspots :
            UVAnchored(h) =>
                h.position = uvDepthToWorld(h.originalUV[1], h.originalUV[2], h.originalDepth[1],
                                            uniforms.depthScale, uniforms.depthBias,
                                            uniforms.depthFlip)

\* C7 witness: a frame can run, the flip uniform was toggled, and a
\* UV-anchored hotspot is displayed
C7_Witness ==
    /\ initPc = "running"
    /\ currentMaterial # 0
    /\ uniforms.depthFlip
    /\ \E h \in Hotspots : UVAnchored(h)

\* C8: a loadScene call with a name that is no scene of the manifest (the
\* call init() makes when the manifest's start is absent from its scenes)
\* is rejected to its caller and leaves currentScene, the meshes, the
\* material, the hotspot list and the loading indicator as they were.
C8_UnknownSceneAltersNothing ==
    [][(initPc = "config" /\ scenesData' \notin (SceneNames \cup {NULL})) =>
          /\ initPc' = "failed"
          /\ UNCHANGED << currentScene, currentMesh, pickingMesh, currentMaterial, hotspots,
                          loadingVisible, tasks, nextId >>]_vars

\* C8 witness: the manifest was loaded, its start scene is absent, init() has failed
C8_Witness ==
    /\ initPc = "failed"
    /\ scenesData = AbsentScene
    /\ ~loadingVisible
    /\ nextId = 0

\* C9: a loadScene starts its color chain and its depth chain together, and
\* createSceneMesh has run for a load only if both chains have resolved.
C9_MeshAfterBothTextures ==
    /\ [](\A id \in LoadIds :
             MeshCreated(id) =>
                 /\ tasks[id].color \in {"png", "jpg"}
                 /\ tasks[id].depth \in {"exr", "png", "flat"})
    /\ [][nextId' = nextId + 1 =>
             /\ tasks'[nextId'].color = "pngPending"
             /\ tasks'[nextId'].depth = "exrPending"]_vars

\* C9 witness: two loads in flight, one whose color resolved before its depth,
\* one whose depth resolved before its color, and a third whose mesh was created
C9_Witness ==
    \E a, b, c \in LoadIds :
        /\ tasks[a].pc = "textures" /\ tasks[a].color \in {"png", "jpg"}
        /\ tasks[a].depth \in {"exrPending", "pngPending"}
        /\ tasks[b].pc = "textures" /\ tasks[b].depth \in {"exr", "png", "flat"}
        /\ tasks[b].color \in {"pngPending", "jpgPending"}
        /\ MeshCreated(c)

\* createSceneMesh has never run for load id
NeverCreated(id) ==
    /\ id \notin sceneMeshes
    /\ id \notin scenePicking
    /\ currentMesh # id
    /\ currentMaterial # id
    /\ disposed[id] = NoDisposals

\* C10: a load whose color chain is exhausted is rejected, has no mesh and
\* leaves currentScene alone; a load is rejected for no other reason, so a
\* load whose depth chain is exhausted goes on with the flat depth texture
\* and, when it completes, sets currentScene to its scene.
C10_ColorFatalDepthDegrades ==
    /\ [](\A id \in LoadIds :
             /\ tasks[id].color = "failed" => (tasks[id].pc = "rejected" /\ NeverCreated(id))
             /\ tasks[id].pc = "rejected" => tasks[id].color = "failed"
             /\ (tasks[id].depth = "flat" /\ tasks[id].color \in {"png", "jpg"}) => MeshCreated(id))
    /\ [][\A id \in LoadIds :
             /\ (tasks[id].pc # "rejected" /\ tasks'[id].pc = "rejected")
                    => currentScene' = currentScene
             /\ (tasks[id].pc # "done" /\ tasks'[id].pc = "done")
                    => currentScene' = tasks[id].scene]_vars

\* C10 witness: one load completed on the flat depth texture and is the
\* current scene's, another was rejected with both panorama files missing
C10_Witness ==
    \E a, b \in LoadIds :
        /\ tasks[a].pc = "done" /\ tasks[a].depth = "flat" /\ currentScene = tasks[a].scene
        /\ currentMesh = 0
        /\ tasks[b].pc = "rejected" /\ tasks[b].color = "failed"

\* a load graduates to pc in this step
Becomes(id, pc) == tasks[id].pc # pc /\ tasks'[id].pc = pc

\* C11: a loadScene that passes the name check disposes the mesh geometry,
\* the material and both textures in place and empties the hotspot list when
\* it starts; the step in which it is rejected hides the loading indicator
\* and restores none of that: meshes, material, disposals, hotspot list and
\* currentScene stay as they are.
C11_FailedLoadLeavesDisposed ==
    /\ [][nextId' = nextId + 1 =>
             /\ currentMesh' = 0 /\ pickingMesh' = 0 /\ currentMaterial' = 0
             /\ hotspots' = << >>
             /\ currentMesh \notin sceneMeshes' /\ pickingMesh \notin scenePicking'
             /\ currentMesh # 0 => disposed'[currentMesh].geometry = disposed[currentMesh].geometry + 1
             /\ currentMaterial # 0 =>
                    /\ disposed'[currentMaterial].material = disposed[currentMaterial].material + 1
                    /\ disposed'[uniforms.tColor].color = disposed[uniforms.tColor].color + 1
                    /\ disposed'[uniforms.tDepth].depth = disposed[uniforms.tDepth].depth + 1]_vars
    /\ [][\A id \in LoadIds :
              Becomes(id, "rejected") =>
                  /\ tasks'[id].color = "failed"
                  /\ loadingVisible' = FALSE
                  /\ UNCHANGED << meshVars, hotspots, currentScene >>]_vars

\* C11 witness: the start scene was shown, a later load was rejected, and the
\* start scene's resources are released, the list empty, the indicator hidden
C11_Witness ==
    \E b \in LoadIds :
        /\ b > 1 /\ tasks[b].pc = "rejected"
        /\ tasks[1].pc = "done" /\ currentScene = tasks[1].scene
        /\ ReleasedOnce(1)
        /\ currentMesh = 0 /\ currentMaterial = 0 /\ hotspots = << >>
        /\ ~loadingVisible

\* C12: whenever no load is in flight and currentScene names a scene, there
\* are a displaced mesh and a material, made by a load of that scene from the
\* textures that load fetched.
C12_UsableWhenIdle ==
    ((\A id \in LoadIds : ~InFlight(id)) /\ currentScene # NULL) =>
        /\ currentMesh # 0 /\ currentMaterial # 0
        /\ tasks[currentMesh].scene = currentScene
        /\ tasks[currentMaterial].scene = currentScene
        /\ uniforms.tColor = currentMaterial /\ uniforms.tDepth = currentMaterial

\* C13: depthScale is 0.5 or more in every state, and a key press leaves it
\* alone, raises it by 0.5, or lowers it by 0.5 but to no less than 0.5: from
\* 0.5 a decrement leaves exactly 0.5.
C13_DepthScaleFloor ==
    /\ [](depthScale >= 5)
    /\ [][\/ depthScale' = depthScale
          \/ depthScale' = depthScale + 5
          \/ depthScale' = depthScale - 5 /\ depthScale' >= 5]_vars

\* C13 witness: five decrements took depthScale from 3.0 to the floor, and a
\* key press is still to come
C13_Witness == depthScale = 5 /\ events > 0

\* C14: exposure is 0.01 or more in every state; a key press that raises it
\* raises it by 0.2 whatever its value, and one that lowers it lowers it by
\* 0.2 or to 0.01.
C14_ExposureFloor ==
    /\ [](exposure >= 1)
    /\ [][/\ exposure' > exposure => exposure' = exposure + 20
          /\ exposure' < exposure =>
                 (exposure' = exposure - 20 \/ (exposure' = 1 /\ exposure - 20 < 1))]_vars

\* C14 witness: exposure came down from 1.0 to the floor in five decrements
\* and was raised from there by one full step, to 0.21
C14_Witness == exposure = 21

\* C15: in every reachable state, toggleDepthFlip called twice in a row gives
\* back the depthFlip flag, the depthFlip uniform, the transformed depth of
\* every d and every hotspot of the list as they are now.
C15_DepthFlipInvolution ==
    LET once == depthFlipToggled(depthFlip, uniforms, hotspots)
        twice == depthFlipToggled(once.depthFlip, once.uniforms, once.hotspots)
    IN  /\ twice.depthFlip = depthFlip
        /\ twice.uniforms = uniforms
        /\ twice.hotspots = hotspots
        /\ \A d \in 0..10 :
               TransformDepth(d, depthScale, depthBias, twice.depthFlip)
                   = TransformDepth(d, depthScale, depthBias, depthFlip)

\* C15 witness: the flag was toggled on with a material in place, and a
\* further toggle moves a hotspot of the list
C15_Witness ==
    /\ depthFlip /\ currentMaterial # 0 /\ uniforms.depthFlip
    /\ depthFlipToggled(depthFlip, uniforms, hotspots).hotspots # hotspots

\* C16: a step that toggles authoring mode, toggles the depth debug view,
\* changes exposure or writes an export leaves the hotspot list as it is:
\* the same hotspots with the same position, originalUV, originalDepth and
\* source record.
C16_OnlyDepthParamsMoveHotspots ==
    [][(\/ isAuthoringMode' # isAuthoringMode
        \/ debugDepth' # debugDepth
        \/ exposure' # exposure
        \/ exported' # exported) => hotspots' = hotspots]_vars

\* C16 witness: with hotspots on the list, authoring mode was switched on,
\* the list was exported, and the debug view or exposure was changed
C16_Witness ==
    /\ hotspots # << >>
    /\ isAuthoringMode
    /\ exported # << >> /\ exported[1] # << >>
    /\ (debugDepth \/ exposure # 100)

\* a record that has a position, or a uv together with a d
WellFormed(hotspotData) ==
    hotspotData.position # << >> \/ (hotspotData.uv # << >> /\ hotspotData.d # << >>)

\* the source records of a hotspot list, in list order
SourceRecords(hs) == [i \in DOMAIN hs |-> hs[i].data]

\* C17: when a load has read a hotspot list, the hotspots made from it are
\* those of the records that have a position or a uv with a d, one each, in
\* the order of the list: a record with neither makes no hotspot and stops
\* none of the others.
C17_MalformedRecordSkipped ==
    [][\A x \in LoadIds :
          (tasks[x].pc = "json" /\ tasks'[x].pc = "done" /\ hotspots' # hotspots
               /\ hotspots' # << >>) =>
              SourceRecords(hotspots') = SelectSeq(HotspotFile(tasks[x].scene), WellFormed)]_vars

\* C17 witness: hall's list, whose second and fourth records lack position
\* data, was read and the hotspots of its first, third and fifth records are on the list
C17_Witness ==
    /\ currentScene = "hall"
    /\ Len(hotspots) = 3
    /\ hotspots[1].data.id = "g1" /\ hotspots[2].data.id = "g3" /\ hotspots[3].data.id = "g5"
    /\ \E i \in DOMAIN HotspotFile("hall") : ~WellFormed(HotspotFile("hall")[i])

\* C18: when the fetch of a scene's hotspots.json is not ok or throws, or the
\* parse of the response throws, the load completes, currentScene becomes
\* that scene, and the hotspot list holds no hotspot made from a hotspot list.
C18_AbsentHotspotListIsNoError ==
    [][\A x \in LoadIds :
          (\/ tasks[x].pc = "fetch" /\ tasks'[x].pc # "json" /\ tasks'[x] # tasks[x]
           \/ tasks[x].pc = "json" /\ tasks'[x] # tasks[x] /\ hotspots' = hotspots) =>
              /\ tasks'[x].pc = "done"
              /\ currentScene' = tasks[x].scene
              /\ \A i \in DOMAIN hotspots' : hotspots'[i].data.id = "placed"]_vars

\* a number given by its grid part c and its decimals f below a grid of unit, in units of 10^-7
Value(c, f, unit) == IF c < 0 THEN c * unit - f ELSE c * unit + f

\* w is v rounded to six decimal places
RoundedTo6(w, v) == w % 10 = 0 /\ w - v \in -5..5

\* the hotspot keeps the uv and the d of its record
HasProvenance(h) == h.originalUV # << >> /\ h.originalDepth # << >>

\* an export was written in this step
Exports == exported' # exported

\* C19 as stated: an export gives, for every hotspot that has original uv and
\* d, a uv and a d identical to the originals, decimals included.
C19_ExportKeepsProvenanceVerbatim ==
    [][Exports =>
          \A i \in DOMAIN hotspots :
              HasProvenance(hotspots[i]) =>
                  /\ exported'[1][i].uv = hotspots[i].originalUV
                  /\ exported'[1][i].d = hotspots[i].originalDepth
                  /\ exported'[1][i].fine.uv = hotspots[i].data.fine.uv
                  /\ exported'[1][i].fine.d = hotspots[i].data.fine.d]_vars

\* C19 amended: an export gives, for every hotspot that has original uv and
\* d, and whatever the depth parameters are, the original uv and d rounded to
\* six decimal places.
C19_ExportKeepsProvenanceRounded ==
    [][Exports =>
          \A i \in DOMAIN hotspots :
              HasProvenance(hotspots[i]) =>
                  /\ \A k \in 1..2 :
                         RoundedTo6(Value(exported'[1][i].uv[k], exported'[1][i].fine.uv[k], 100000),
                                    Value(hotspots[i].originalUV[k], hotspots[i].data.fine.uv[k],
                                          100000))
                  /\ RoundedTo6(Value(exported'[1][i].d[1], exported'[1][i].fine.d[1], 1000000),
                                Value(hotspots[i].originalDepth[1], hotspots[i].data.fine.d[1],
                                      1000000))]_vars

\* C19 witness: the export holds hall's g1, whose d 0.4000007 was written as 0.400001
C19_Witness ==
    /\ exported # << >>
    /\ \E i \in DOMAIN exported[1] :
          /\ exported[1][i].id = "g1"
          /\ exported[1][i].d = << 4 >> /\ exported[1][i].fine.d = << 10 >>

\* C20 as stated: an export has one record per hotspot, in list order, each
\* with the hotspot's position as it is, and for a hotspot made from a
\* position alone the uv and d that worldToUvDepth gives under the current
\* depth parameters, as they are.
C20_ExportCarriesPositionAndInverse ==
    [][Exports =>
          /\ Len(exported'[1]) = Len(hotspots)
          /\ \A i \in DOMAIN hotspots :
              LET h == hotspots[i]
                  e == exported'[1][i]
                  uvDepth == worldToUvDepth(h.position, depthScale, depthBias, depthFlip)
              IN  /\ e.id = h.data.id
                  /\ e.position = h.position /\ e.fine.position = PositionFine(h)
                  /\ (h.originalUV = << >> /\ h.originalDepth = << >>) =>
                         /\ e.uv = << uvDepth.u, uvDepth.v >> /\ e.fine.uv = << 0, 0 >>
                         /\ e.d = << uvDepth.d >> /\ e.fine.d = << uvDepth.fine >>]_vars

\* C20 amended: an export has one record per hotspot, in list order, each
\* with the hotspot's position rounded to six decimal places, and for a
\* hotspot made from a position alone the uv and d that worldToUvDepth gives
\* under the current depth parameters, rounded to six decimal places.
C20_ExportCarriesRoundedPositionAndInverse ==
    [][Exports =>
          /\ Len(exported'[1]) = Len(hotspots)
          /\ \A i \in DOMAIN hotspots :
              LET h == hotspots[i]
                  e == exported'[1][i]
                  uvDepth == worldToUvDepth(h.position, depthScale, depthBias, depthFlip)
              IN  /\ e.id = h.data.id
                  /\ \A k \in 1..3 :
                         RoundedTo6(Value(e.position[k], e.fine.position[k], 100000),
                                    Value(h.position[k], PositionFine(h)[k], 100000))
                  /\ (h.originalUV = << >> /\ h.originalDepth = << >>) =>
                         /\ RoundedTo6(Value(e.uv[1], e.fine.uv[1], 100000), uvDepth.u * 100000)
                         /\ RoundedTo6(Value(e.uv[2], e.fine.uv[2], 100000), uvDepth.v * 100000)
                         /\ RoundedTo6(Value(e.d[1], e.fine.d[1], 1000000),
                                       Value(uvDepth.d, uvDepth.fine, 1000000))]_vars

\* C20 witness: the export holds lobby's h2, made from position (1.5, 0, 0)
\* alone, with d = 0.5 / 3.0 written as 0.166667, after a toggle of the flip
\* or not
C20_Witness ==
    /\ exported # << >>
    /\ \E i \in DOMAIN exported[1] :
          /\ exported[1][i].id = "h2"
          /\ exported[1][i].position = << 150, 0, 0 >>
          /\ exported[1][i].uv = << 75, 50 >>
          /\ exported[1][i].d = << 1 >> /\ exported[1][i].fine.d = << 666670 >>

Abs(n) == IF n < 0 THEN -n ELSE n

\* uvDepthToWorld has returned for the call
ForwardDone == call.op = "uvDepthToWorld" /\ call.world # << >>

\* worldToUvDepth has returned on the result of uvDepthToWorld
RoundTripDone == ForwardDone /\ call.uvDepth # << >>

\* 1 + t of call c in hundredths, t the depth after the flip, then the bias, then the scale
Radius(c) == 100 + ((IF c.depthFlip THEN 10 - c.d ELSE c.d) + c.depthBias) * c.depthScale

\* the point of the unit sphere at (u, v), moved out to r hundredths from the origin
OnRay(u, v, r) == [k \in 1..3 |-> SpherePoint(u, v)[k] * r]

\* C21 as stated: for every u, v, d in [0,1] and every scale, bias and flip,
\* the result of uvDepthToWorld lies at distance 1 + t from the origin,
\* t = ((flip ? 1 - d : d) + bias) * scale.
C21_ForwardDistance ==
    ForwardDone => Length(call.world) = Radius(call)

\* C21 amended: the result of uvDepthToWorld is the sphere point of (u, v)
\* multiplied by 1 + t, t = ((flip ? 1 - d : d) + bias) * scale, so it lies
\* at distance |1 + t| from the origin.
C21_ForwardSignedDistance ==
    ForwardDone =>
        /\ call.world = OnRay(call.u, call.v, Radius(call))
        /\ Length(call.world) = Abs(Radius(call))

\* C21 witness: flip on, bias -1.0, d = 1, scale 3.0: t = -3.0, and the point
\* lies 2.0 from the origin on the far side of it
C21_Witness ==
    /\ ForwardDone
    /\ call.depthFlip /\ call.depthBias = -10 /\ call.d = 10 /\ call.depthScale = 30
    /\ call.u = 50 /\ call.v = 50
    /\ call.world = << 0, 0, -200 >>

\* the d that worldToUvDepth returned, in units of 10^-7
ReturnedDepth == call.uvDepth[1].d * FinePerTenth + call.uvDepth[1].fine

\* C22: with bias 0, for every u, v, d in [0,1], every scale from 0.5 and
\* either flip, worldToUvDepth of the result of uvDepthToWorld under the same
\* parameters returns d.
C22_RoundTripZeroBias ==
    (RoundTripDone /\ call.depthBias = 0) => ReturnedDepth = call.d * FinePerTenth

\* C22 witness: the round trip of d = 0.6 under scale 0.5 with the flip on and bias 0
C22_Witness ==
    /\ RoundTripDone
    /\ call.depthBias = 0 /\ call.depthFlip /\ call.depthScale = 5 /\ call.d = 6
    /\ call.uvDepth[1].d = 6

\* C23 as stated: with a bias other than 0 the depth of the round trip, before
\* the clamp, differs from d by exactly the bias.
C23_RoundTripOffByBias ==
    (RoundTripDone /\ call.depthBias # 0) =>
        Abs(depthEstimate(call.world, call.depthScale, call.depthBias, call.depthFlip)
                - call.d * FinePerTenth) = Abs(call.depthBias) * FinePerTenth

\* C23 amended: with a bias other than 0 and 1 + t not negative, the depth of
\* the round trip is d itself, before the clamp and after it.
C23_RoundTripExactWithBias ==
    (RoundTripDone /\ call.depthBias # 0 /\ Radius(call) >= 0) =>
        /\ depthEstimate(call.world, call.depthScale, call.depthBias, call.depthFlip)
               = call.d * FinePerTenth
        /\ ReturnedDepth = call.d * FinePerTenth

\* C23 witness: the round trip of d = 0.6 under bias 0.5 with the flip on
C23_Witness ==
    /\ RoundTripDone
    /\ call.depthBias = 5 /\ call.depthFlip /\ call.d = 6
    /\ call.uvDepth[1].d = 6 /\ call.uvDepth[1].fine = 0

\* the position worldToUvDepth was called on
InversePosition == IF call.op = "worldToUvDepth" THEN call.worldPos ELSE call.world

\* C24: for every world position, the origin and points inside the unit
\* sphere included, and every scale from 0.5, bias and flip, worldToUvDepth
\* returns a d in [0,1]: (distance - 1) / scale - bias, flipped if the flip
\* is on, and clamped after that.
C24_InverseDepthClamped ==
    call.uvDepth # << >> =>
        LET estimate == ((Length(InversePosition) - 100) * FinePerTenth) \div call.depthScale
                            - call.depthBias * FinePerTenth
            flipped == IF call.depthFlip THEN 10 * FinePerTenth - estimate ELSE estimate
        IN  /\ ReturnedDepth >= 0
            /\ ReturnedDepth <= 10 * FinePerTenth
            /\ ReturnedDepth = Max(0, Min(10 * FinePerTenth, flipped))

\* C24 witness: worldToUvDepth on the origin with the flip on: the estimate
\* -1 / scale - bias is flipped to more than 1 and clamped to 1
C24_Witness ==
    /\ call.op = "worldToUvDepth" /\ call.uvDepth # << >>
    /\ call.worldPos = << 0, 0, 0 >>
    /\ call.depthFlip /\ call.depthBias = 0
    /\ call.uvDepth[1].d = 10 /\ call.uvDepth[1].fine = 0
    /\ call.uvDepth[1].u = 50 /\ call.uvDepth[1].v = 50

\* C25: for the same depth value, direction and depth parameters the vertex
\* stage and uvDepthToWorld give the same point, the direction multiplied by
\* 1 + t with t the depth after the flip, then the bias, then the scale.
C25_ShaderMatchesForward ==
    (ForwardDone /\ call.vertex # << >>) =>
        /\ call.vertex = call.world
        /\ call.vertex = OnRay(call.u, call.v, Radius(call))

\* C25 witness: both ran for d = 0.4 at (0.25, 0.5) with the flip on, bias
\* 0.5 and scale 3.0: t = (0.6 + 0.5) * 3.0
C25_Witness ==
    /\ ForwardDone
    /\ call.depthFlip /\ call.depthBias = 5 /\ call.depthScale = 30 /\ call.d = 4
    /\ call.u = 25 /\ call.v = 50
    /\ call.vertex = << -430, 0, 0 >>

\* C26: for every v, d and depth parameters, and whatever seamFix is,
\* uvDepthToWorld gives for u = 0 and for u = 1 the same point: that of the
\* other edge of the seam.
C26_LongitudeWraps ==
    (ForwardDone /\ call.u \in {0, 100}) =>
        /\ call.world = OnRay(100 - call.u, call.v, Radius(call))
        /\ call.world = uvDepthToWorld(100 - call.u, call.v, call.d, call.depthScale,
                                       call.depthBias, call.depthFlip)

\* C26 witness: u = 1 on the equator with a seamFix of 0.25, d = 0.6 under
\* the initial parameters: the point (0, 0, -2.8) that u = 0 gives
C26_Witness ==
    /\ ForwardDone
    /\ call.u = 100 /\ call.v = 50 /\ call.seamFix = 25
    /\ call.d = 6 /\ call.depthScale = InitDepthScale /\ call.depthBias = 0 /\ ~call.depthFlip
    /\ call.world = << 0, 0, -280 >>
    /\ call.world = uvDepthToWorld(0, 50, 6, InitDepthScale, 0, FALSE)

\* C27: the error notice has been shown once when init() has failed and not at
\* all otherwise; init() fails when the manifest does not load and when the
\* load of the start scene is rejected, and the render loop is not started
\* then or later; the render loop is started in the step in which the load
\* of the start scene completes, and in no other.
C27_StartupFailureFatal ==
    /\ [](errorShown = IF initPc = "failed" THEN 1 ELSE 0)
    /\ [](initPc = "running" => (tasks[1].pc = "done" /\ tasks[1].scene = scenesData))
    /\ [][/\ (initPc = "config" /\ initPc' # "config" /\ scenesData' = NULL) => initPc' = "failed"
          /\ Becomes(1, "rejected") => initPc' = "failed"
          /\ initPc = "failed" => initPc' = "failed"
          /\ (initPc # "running" /\ initPc' = "running") => Becomes(1, "done")]_vars

\* C27 witness: the manifest loaded, the load of its start scene was rejected,
\* the notice was shown once, and a key was pressed since
C27_Witness ==
    /\ initPc = "failed"
    /\ scenesData = "lobby" /\ tasks[1].pc = "rejected"
    /\ errorShown = 1
    /\ events < MaxEvents

\* the target of a link record names a scene of the manifest
ValidLink(hotspotData) ==
    hotspotData.type = "link" /\ hotspotData.target # "" /\ hotspotData.target \in SceneNames

\* C28: a click on a link hotspot whose target is a scene of the manifest
\* starts a load of that scene, and a load started by a click that is not
\* rejected for want of a color image leads to currentScene being its scene;
\* a click on a link hotspot whose target is missing or no scene of the
\* manifest starts no load and changes nothing.
C28_LinkActivation ==
    /\ [][\A h \in listeners :
             (onHotspotClick(h) /\ h.type = "link") =>
                 IF ValidLink(h)
                 THEN /\ nextId' = nextId + 1
                      /\ tasks'[nextId'].pc = "textures"
                      /\ tasks'[nextId'].scene = h.target
                 ELSE UNCHANGED << initVars, currentScene, meshVars, hotspots, params,
                                   loadingVisible, loadVars, listeners, timers, exported >>]_vars
    /\ \A id \in LoadIds \ {1} :
           (tasks[id].pc = "textures") ~>
               (tasks[id].pc = "rejected" \/ (tasks[id].pc = "done" /\ currentScene = tasks[id].scene))

\* C28 witness: lobby's h1 was clicked, the load of hall it started has
\* completed and hall is the current scene, where the links g3 to a scene
\* that the manifest lacks and g5 without a target can be clicked
C28_Witness ==
    /\ tasks[2].pc = "done" /\ tasks[2].scene = "hall"
    /\ currentScene = "hall"
    /\ \E g, h \in listeners :
          /\ g.type = "link" /\ g.target = AbsentScene
          /\ h.type = "link" /\ h.target = ""

\* C29: pano.png is requested first and pano.jpg only when pano.png has
\* failed; depth.exr is requested first, depth.png only when depth.exr has
\* failed, and the flat texture is made only when depth.png has failed too;
\* a file that loads ends its chain; a load is rejected in the step in which
\* pano.jpg fails and in no other.
C29_FallbackOrder ==
    [][/\ nextId' = nextId + 1 =>
              (tasks'[nextId'].color = "pngPending" /\ tasks'[nextId'].depth = "exrPending")
       /\ \A id \in LoadIds, loaded \in BOOLEAN :
              /\ ColorRequestEnds(id, loaded) =>
                     /\ tasks'[id].depth = tasks[id].depth
                     /\ tasks'[id].color =
                            IF loaded THEN (IF tasks[id].color = "pngPending" THEN "png" ELSE "jpg")
                            ELSE IF tasks[id].color = "pngPending" THEN "jpgPending"
                            ELSE "failed"
                     /\ Becomes(id, "rejected") <=> (tasks[id].color = "jpgPending" /\ ~loaded)
              /\ DepthRequestEnds(id, loaded) =>
                     /\ tasks'[id].color = tasks[id].color
                     /\ tasks'[id].depth =
                            IF loaded THEN (IF tasks[id].depth = "exrPending" THEN "exr" ELSE "png")
                            ELSE IF tasks[id].depth = "exrPending" THEN "pngPending"
                            ELSE "flat"
                     /\ ~Becomes(id, "rejected")
       /\ \A id \in LoadIds :
              /\ tasks[id].color \in {"png", "jpg", "failed"} => tasks'[id].color = tasks[id].color
              /\ tasks[id].depth \in {"exr", "png", "flat"} => tasks'[id].depth = tasks[id].depth
              /\ Becomes(id, "rejected") => tasks'[id].color = "failed"]_vars

\* C29 witness: a load whose mesh was made from pano.jpg and the flat depth
\* texture, both chains having fallen through to their last entry
C29_Witness ==
    \E id \in LoadIds :
        /\ tasks[id].color = "jpg" /\ tasks[id].depth = "flat"
        /\ currentMesh = id /\ uniforms.tColor = id

\* C30: a step in which the hotspot list is exported is taken in authoring
\* mode; the export key writes the export of the current list when
\* authoring mode is on and nothing when it is off, and in either case
\* changes no field of the application.
C30_ExportOnlyWhenAuthoring ==
    [][/\ exported' # exported => isAuthoringMode
       /\ exportHotspots =>
              /\ isAuthoringMode =>
                     exported' = << exportData(hotspots, depthScale, depthBias, depthFlip) >>
              /\ ~isAuthoringMode => exported' = exported
              /\ UNCHANGED << initVars, currentScene, meshVars, hotspots, params,
                              loadingVisible, loadVars, listeners, timers >>]_vars

\* C30 witness: the last key pressed exported a list with hotspots on it,
\* in authoring mode
C30_Witness ==
    /\ events = 0
    /\ isAuthoringMode
    /\ hotspots # << >>
    /\ exported = << exportData(hotspots, depthScale, depthBias, depthFlip) >>

\* handleAuthoringClick creates a hotspot in this step
PlacesHotspot ==
    /\ timers' = timers - 1
    /\ Len(hotspots') = Len(hotspots) + 1
    /\ hotspots'[Len(hotspots')].data.id = "placed"

\* C31: every hotspot that handleAuthoringClick creates is created in a state
\* in which isAuthoringMode is true, whatever happened between the click and
\* the run of its timer.
C31_PlacedOnlyWhenAuthoring ==
    [][PlacesHotspot => isAuthoringMode]_vars

\* the record of the hotspot carries a position as well as a uv with d
BothAnchors(h) == h.data.position # << >> /\ h.data.uv # << >> /\ h.data.d # << >>

\* after every step, a hotspot whose record carries both anchors is where its record put it
BothAnchorsStay ==
    \A i \in DOMAIN hotspots' :
        BothAnchors(hotspots'[i]) =>
            /\ hotspots'[i].isWorldCoords
            /\ hotspots'[i].position = hotspots'[i].data.position

\* C32 as stated: a hotspot whose record carries a position and a uv with d
\* is world-anchored, is at the given position after every step, and an
\* export gives the record's uv and d as they are, decimals included.
C32_BothAnchorsWorldEchoed ==
    [][/\ BothAnchorsStay
       /\ Exports =>
             \A i \in DOMAIN hotspots :
                 BothAnchors(hotspots[i]) =>
                     /\ exported'[1][i].uv = hotspots[i].data.uv
                     /\ exported'[1][i].d = hotspots[i].data.d
                     /\ exported'[1][i].fine.uv = hotspots[i].data.fine.uv
                     /\ exported'[1][i].fine.d = hotspots[i].data.fine.d]_vars

\* C32 amended: a hotspot whose record carries a position and a uv with d is
\* world-anchored, is at the given position after every step, and an export
\* gives the record's uv and d rounded to six decimal places, whatever the
\* position is.
C32_BothAnchorsWorldRounded ==
    [][/\ BothAnchorsStay
       /\ Exports =>
             \A i \in DOMAIN hotspots :
                 BothAnchors(hotspots[i]) =>
                     /\ \A k \in 1..2 :
                            RoundedTo6(Value(exported'[1][i].uv[k], exported'[1][i].fine.uv[k],
                                             FinePerHundredth),
                                       Value(hotspots[i].data.uv[k], hotspots[i].data.fine.uv[k],
                                             FinePerHundredth))
                     /\ RoundedTo6(Value(exported'[1][i].d[1], exported'[1][i].fine.d[1],
                                         FinePerTenth),
                                   Value(hotspots[i].data.d[1], hotspots[i].data.fine.d[1],
                                         FinePerTenth))]_vars

\* C32 witness: a hotspot placed by an authoring click is world-anchored at
\* the hit point, and the export holds its record with the uv 0.5000003 and
\* 0.5000006 of the hit written as 0.5 and 0.500001
C32_Witness ==
    /\ exported # << >>
    /\ \E i \in DOMAIN hotspots :
          /\ hotspots[i].data.id = "placed"
          /\ hotspots[i].isWorldCoords
          /\ hotspots[i].position = hotspots[i].data.position
          /\ i \in DOMAIN exported[1]
          /\ exported[1][i].id = "placed"
          /\ exported[1][i].fine.uv = << 0, 10 >>

\* C33: whenever currentMaterial exists, its uniforms depthScale, depthBias,
\* depthFlip, debugDepth, seamFix and exposure equal the fields of the same
\* names, however the key presses interleave with the scene loads.
C33_UniformsMatchFields ==
    currentMaterial # 0 =>
        /\ uniforms.depthScale = depthScale
        /\ uniforms.depthBias = depthBias
        /\ uniforms.depthFlip = depthFlip
        /\ uniforms.debugDepth = debugDepth
        /\ uniforms.seamFix = seamFix
        /\ uniforms.exposure = exposure

\* C33 witness: a material exists after three key presses and carries a
\* flipped depth, a depth scale and an exposure that are not the initial ones
C33_Witness ==
    /\ currentMaterial # 0
    /\ events = 0
    /\ uniforms.depthFlip /\ depthFlip
    /\ uniforms.depthScale # InitDepthScale /\ uniforms.depthScale = depthScale
    /\ uniforms.exposure # InitExposure /\ uniforms.exposure = exposure

\* C34: in every state an event handler can observe, currentMesh, pickingMesh
\* and currentMaterial are all null or all set, so that a handler that finds
\* a picking mesh also finds a mesh to raycast.
C34_MeshesTogether ==
    /\ (currentMesh = 0) <=> (pickingMesh = 0)
    /\ (currentMesh = 0) <=> (currentMaterial = 0)

\* C34 witness: the timer of an authoring click is pending while a load has
\* disposed the scene and has created no mesh yet
C34_Witness ==
    /\ timers > 0
    /\ currentMesh = 0 /\ pickingMesh = 0 /\ currentMaterial = 0
    /\ \E id \in LoadIds : tasks[id].pc = "textures"
    /\ \E id \in LoadIds : disposed[id] # NoDisposals

\* the loadScene call of load id has resolved or rejected
Settled(id) == tasks[id].pc \in {"done", "rejected"}

\* C35: when every request ends, every load that passed the scene-name check
\* settles; the loading indicator is hidden by the step in which a load
\* settles, resolved or rejected; and the loading indicator is visible in
\* every state in which some load is in flight.
C35_LoadsSettleIndicatorShown ==
    /\ \A id \in LoadIds : InFlight(id) ~> Settled(id)
    /\ [][\A id \in LoadIds : InFlight(id) /\ Settled(id)' => ~loadingVisible']_vars
    /\ []((\E id \in LoadIds : InFlight(id)) => loadingVisible)

====
